---- MODULE Spec2Model ----
(***************************************************************************)
(* A model of main.py: the webhook intake, the per-task worker             *)
(* (VideoProcessor.process_videos and the methods it calls), the task      *)
(* registry TASKS, and the status / download endpoints that read it while  *)
(* the worker writes it.                                                   *)
(***************************************************************************)
EXTENDS Integers, Sequences, FiniteSets, TLC

(***************************************************************************)
(* Bounds of the model.                                                    *)
(***************************************************************************)
\* longest "videos" list a webhook payload carries
MaxClips == 2

\* identifiers uuid4 may hand out, and the identifiers a client may ask for
TaskIds == {"t1"}
AskedIds == {"t1", "t9"}

(***************************************************************************)
(* Python / JSON values, tagged by type.                                   *)
(***************************************************************************)
PyNone == [t |-> "None"]
Str(s) == [t |-> "str", v |-> s]
PyInt(n) == [t |-> "int", v |-> n]
List(e) == [t |-> "list", e |-> e]
\* a dict keeps its insertion order: a sequence of <<key, value>>
Dict(items) == [t |-> "dict", items |-> items]

\* bool(v)
Truthy(v) ==
  CASE v.t = "None" -> FALSE
    [] v.t = "str" -> v.v # ""
    [] v.t = "int" -> v.v # 0
    [] v.t = "list" -> v.e # <<>>
    [] v.t = "dict" -> v.items # <<>>
    [] OTHER -> TRUE

HasKey(d, k) == \E j \in 1..Len(d.items) : d.items[j][1] = k
Get(d, k) == d.items[CHOOSE j \in 1..Len(d.items) : d.items[j][1] = k][2]

\* outcome of evaluating a statement: a return, a raised exception, or falling
\* through to the next statement
Return(v) == [k |-> "return", v |-> v]
Raise(e) == [k |-> "raise", exc |-> e]
FallThrough == [k |-> "next"]

(***************************************************************************)
(* The strings of the model and the string tests the code applies to them. *)
(***************************************************************************)
UrlA == "http://h/a.mp4"
UrlB == "http://h/b.mp4"
UrlC == "http://h/c_clean.mp4"
UrlW == "http://h/w_marked.mp4"
UrlD == "http://h/d.mp4"

\* value.startswith('http') and '.mp4' in value   (line 561)
HttpMp4 == {UrlA, UrlB, UrlC, UrlW, UrlD}
\* strings requests can fetch at all: the others raise inside download_video
HttpUrls == HttpMp4 \cup {"http://h/page"}
\* <<k, s>>: k is a substring of s (Python's `k in s` on a str)
Substrings == {<<"url", "my url">>, <<"works", "it works">>}

TypeErrorNotIterable == "argument of type 'NoneType' is not iterable"
TypeErrorIndices == "string indices must be integers"

\* `k in v`
PyIn(k, v) ==
  CASE v.t = "dict" -> Return(HasKey(v, k))
    [] v.t = "str" -> Return(<<k, v.v>> \in Substrings)
    [] v.t = "list" -> Return(\E j \in 1..Len(v.e) : v.e[j] = Str(k))
    [] OTHER -> Raise(TypeErrorNotIterable)

\* `v[k]` with a str key
PyGetItem(v, k) ==
  IF v.t = "dict" /\ HasKey(v, k) THEN Return(Get(v, k))
  ELSE Raise(TypeErrorIndices)

(***************************************************************************)
(* VideoProcessor.extract_video_url                                        *)
(***************************************************************************)
\* lines 547-558: the works branch; every exception inside is swallowed
extract_works(output) ==
  LET w == PyGetItem(output, "works") IN
  IF w.k = "raise" THEN FallThrough
  ELSE IF ~(w.v.t = "list" /\ w.v.e # <<>>) THEN FallThrough
  ELSE LET work == w.v.e[1] IN
    IF ~(work.t = "dict" /\ HasKey(work, "video")) THEN FallThrough
    ELSE LET video_data == Get(work, "video")
             c1 == PyIn("resource_without_watermark", video_data)
             c2 == PyIn("resource", video_data)
         IN IF c1.k = "raise" THEN FallThrough
            ELSE IF c1.v THEN
              (LET g == PyGetItem(video_data, "resource_without_watermark")
               IN IF g.k = "raise" THEN FallThrough ELSE g)
            ELSE IF c2.v THEN
              (LET g == PyGetItem(video_data, "resource")
               IN IF g.k = "raise" THEN FallThrough ELSE g)
            ELSE FallThrough

\* lines 560-562: the first str value that looks like an http .mp4 url
extract_scan(video_info) ==
  LET hits == {j \in 1..Len(video_info.items) :
                 /\ video_info.items[j][2].t = "str"
                 /\ video_info.items[j][2].v \in HttpMp4}
  IN IF hits = {} THEN Return(PyNone)
     ELSE Return(video_info.items[CHOOSE j \in hits : \A h \in hits : j <= h][2])

\* lines 543-558, for a dict that has an 'output' key
extract_output(video_info) ==
  LET output == Get(video_info, "output")
      hasUrl == PyIn("url", output)
      hasWorks == PyIn("works", output)
  IN IF hasUrl.k = "raise" THEN hasUrl
     ELSE IF hasUrl.v THEN PyGetItem(output, "url")
     ELSE IF hasWorks.k = "raise" THEN hasWorks
     ELSE IF hasWorks.v THEN extract_works(output)
     ELSE FallThrough

extract_video_url(video_info) ==
  IF video_info.t # "dict" THEN Return(PyNone)
  ELSE IF HasKey(video_info, "url") THEN Return(Get(video_info, "url"))
  ELSE LET o == IF HasKey(video_info, "output") THEN extract_output(video_info)
                ELSE FallThrough
       IN IF o.k = "next" THEN extract_scan(video_info) ELSE o

(***************************************************************************)
(* Clip descriptors a webhook payload may carry.                           *)
(***************************************************************************)
D_url == Dict(<< <<"url", Str(UrlA)>> >>)
D_str == Str("clip")
D_urlNull == Dict(<< <<"url", PyNone>> >>)
D_urlEmpty == Dict(<< <<"url", Str("")>> >>)
D_outNull == Dict(<< <<"output", PyNone>> >>)
D_outInt == Dict(<< <<"output", PyInt(5)>> >>)
D_outStr == Dict(<< <<"output", Str("done")>> >>)
D_outEmpty == Dict(<< <<"output", Dict(<<>>)>> >>)
D_outUrl == Dict(<< <<"output", Dict(<< <<"url", Str(UrlB)>> >>)>> >>)
D_worksEmpty == Dict(<< <<"output", Dict(<< <<"works", List(<<>>)>> >>)>> >>)
D_worksBad ==
  Dict(<< <<"output", Dict(<< <<"works", List(<< Dict(<< <<"video", PyNone>> >>) >>)>> >>)>> >>)
D_worksBoth ==
  Dict(<< <<"output", Dict(<< <<"works", List(<< Dict(<< <<"video",
     Dict(<< <<"resource", Str(UrlW)>>,
             <<"resource_without_watermark", Str(UrlC)>> >>)>> >>) >>)>> >>)>> >>)
D_worksRes ==
  Dict(<< <<"output", Dict(<< <<"works", List(<< Dict(<< <<"video",
     Dict(<< <<"resource", Str(UrlW)>> >>)>> >>) >>)>> >>)>> >>)
D_loose == Dict(<< <<"title", Str("a b")>>, <<"file", Str(UrlD)>> >>)
D_title == Dict(<< <<"title", Str("a b")>> >>)

Descriptors ==
  {D_url, D_str, D_urlNull, D_urlEmpty, D_outNull, D_outInt, D_outStr, D_outEmpty,
   D_outUrl, D_worksEmpty, D_worksBad, D_worksBoth, D_worksRes, D_loose, D_title}

\* the "videos" lists a request may carry: 1..MaxClips descriptors (line 752
\* rejects the empty list)
RequestDescriptors == {D_url, D_str, D_outNull, D_title}
RECURSIVE ListsUpTo(_, _)
ListsUpTo(S, n) ==
  IF n = 0 THEN {<<>>}
  ELSE LET shorter == ListsUpTo(S, n - 1)
       IN shorter \cup {Append(l, d) : l \in {x \in shorter : Len(x) = n - 1}, d \in S}
VideoLists == ListsUpTo(RequestDescriptors, MaxClips) \ {<<>>}

(***************************************************************************)
(* State.                                                                  *)
(***************************************************************************)
VARIABLES
  TASKS,              \* the registry: task id -> entry (line 31)
  WHISPER_AVAILABLE,  \* set once at import (lines 18-24)
  proc,               \* task id -> the worker thread's position and locals
  hist,               \* task id -> what the worker has done so far (history)
  request             \* the status / download request being served

vars == <<TASKS, WHISPER_AVAILABLE, proc, hist, request>>

\* a key the registry entry does not hold
Absent == "<absent>"

TEMP_DIR == "temp_files"
OUTPUT_DIR == "output_videos"

\* line 521-522
local_path(i, task_id) ==
  TEMP_DIR \o "/video_part_" \o ToString(i) \o "_" \o task_id \o ".mp4"
\* lines 588, 622 with a file name that leaves the task id out
combined_path_shared(task_id) == TEMP_DIR \o "/combined.mp4"

\* lines 588, 622
combined_path(task_id) == TEMP_DIR \o "/combined_" \o task_id \o ".mp4"

\* messages the worker records in the entry's error field
MsgNoVideo == "Ne udalos zagruzit ni odnogo video"
MsgCombineNone == "Failed to download and combine videos."
MsgFfmpeg == "ffmpeg error"
MsgCritical == "Kriticheskaya oshibka: nevozmozhno sozdat video"

\* the worker's locals before process_videos starts, and after they go out of scope
NoLocals ==
  [i |-> 0, downloaded_files |-> <<>>, combined_video_path |-> PyNone,
   has_audio |-> FALSE, word_level_info |-> PyNone,
   line_level_subtitles |-> PyNone, ass_path |-> PyNone,
   final_video_path |-> PyNone, exc |-> ""]

NoHistory ==
  [progress |-> <<>>, attempted |-> <<>>, fetched |-> <<>>, handed |-> PyNone,
   stages |-> <<>>, cues |-> FALSE, render |-> <<>>]

NoRequest == [pc |-> "idle"]

Init ==
  /\ TASKS = [id \in {} |-> 0]
  /\ WHISPER_AVAILABLE \in BOOLEAN
  /\ proc = [id \in {} |-> 0]
  /\ hist = [id \in {} |-> 0]
  /\ request = NoRequest

\* f with key k (added or replaced) bound to v
Put(f, k, v) == [x \in DOMAIN f \cup {k} |-> IF x = k THEN v ELSE f[x]]

\* the entry of task id with one field written
Write(id, field, v) == TASKS' = [TASKS EXCEPT ![id][field] = v]

\* the worker of task id moves to pc with locals l
Goto(id, pc, l) == proc' = [proc EXCEPT ![id] = [l EXCEPT !.pc = pc]]
At(id, pc) == id \in DOMAIN proc /\ proc[id].pc = pc

Log(id, field, v) == hist' = [hist EXCEPT ![id][field] = Append(@, v)]

(***************************************************************************)
(* VideoProcessor.process_videos, statement by statement.                  *)
(***************************************************************************)
\* line 83 left out: the worker never marks the task as processing
process_videos_l83_unmarked(id) ==
  /\ At(id, "l83")
  /\ Goto(id, "l85", proc[id])
  /\ UNCHANGED <<TASKS, WHISPER_AVAILABLE, hist, request>>

\* line 83
process_videos_l83(id) ==
  /\ At(id, "l83")
  /\ Write(id, "status", "processing")
  /\ Goto(id, "l85", proc[id])
  /\ UNCHANGED <<WHISPER_AVAILABLE, hist, request>>

\* lines 84-85, and the call of download_and_combine_videos (line 513)
process_videos_l85(id) ==
  /\ At(id, "l85")
  /\ Write(id, "progress", 0)
  /\ Log(id, "progress", 0)
  /\ Goto(id, "l515", [proc[id] EXCEPT !.i = 1, !.downloaded_files = <<>>])
  /\ UNCHANGED <<WHISPER_AVAILABLE, request>>

(***************************************************************************)
(* VideoProcessor.download_and_combine_videos (lines 511-535): one         *)
(* iteration of the loop per step.                                         *)
(***************************************************************************)
InLoop(id) == At(id, "l515") /\ proc[id].i <= Len(TASKS[id].video_data)
video_url(id) == extract_video_url(TASKS[id].video_data[proc[id].i])

\* line 516 raises: the exception leaves the loop and the method
extract_raises(id) ==
  /\ InLoop(id)
  /\ video_url(id).k = "raise"
  /\ Goto(id, "l150", [NoLocals @@ proc[id] EXCEPT !.exc = video_url(id).exc])
  /\ Log(id, "attempted", proc[id].i)
  /\ UNCHANGED <<TASKS, WHISPER_AVAILABLE, request>>

\* lines 518-519: no url, continue
skip_descriptor(id) ==
  /\ InLoop(id)
  /\ video_url(id).k = "return" /\ ~Truthy(video_url(id).v)
  /\ Goto(id, "l515", [proc[id] EXCEPT !.i = @ + 1])
  /\ Log(id, "attempted", proc[id].i)
  /\ UNCHANGED <<TASKS, WHISPER_AVAILABLE, request>>

\* VideoDownloader.download_video (lines 50-69): True, or False on any exception
download_outcomes(url) ==
  IF url.t = "str" /\ url.v \in HttpUrls THEN BOOLEAN ELSE {FALSE}

\* lines 521-530
download_clip(id) ==
  /\ InLoop(id)
  /\ video_url(id).k = "return" /\ Truthy(video_url(id).v)
  /\ \E ok \in download_outcomes(video_url(id).v) :
       LET path == local_path(proc[id].i - 1, id)
           files == IF ok THEN Append(proc[id].downloaded_files, path)
                    ELSE proc[id].downloaded_files
       IN /\ Goto(id, "l515", [proc[id] EXCEPT !.i = @ + 1, !.downloaded_files = files])
          /\ hist' = [hist EXCEPT ![id].attempted = Append(@, proc[id].i),
                                  ![id].fetched = files]
  /\ UNCHANGED <<TASKS, WHISPER_AVAILABLE, request>>

\* the worker's locals once a method has returned or raised: only self's fields stay
Unwound(id) == NoLocals @@ proc[id]

LoopDone(id) == At(id, "l515") /\ proc[id].i > Len(TASKS[id].video_data)

\* lines 532-533 left out: the empty list goes on to combine_downloaded_videos,
\* which returns None (line 585)
no_video_downloaded_unchecked(id) ==
  /\ LoopDone(id)
  /\ proc[id].downloaded_files = <<>>
  /\ Goto(id, "l90", Unwound(id))
  /\ hist' = [hist EXCEPT ![id].handed = List(<<>>), ![id].stages = Append(@, "assembly")]
  /\ UNCHANGED <<TASKS, WHISPER_AVAILABLE, request>>

\* lines 532-533: nothing was downloaded
no_video_downloaded(id) ==
  /\ LoopDone(id)
  /\ proc[id].downloaded_files = <<>>
  /\ Goto(id, "l150", [Unwound(id) EXCEPT !.exc = MsgNoVideo])
  /\ UNCHANGED <<TASKS, WHISPER_AVAILABLE, hist, request>>

(***************************************************************************)
(* VideoProcessor.combine_downloaded_videos (lines 582-645), called at     *)
(* line 535.  The environment decides which files still exist (line 614),  *)
(* and whether the transcoding engine succeeds.                            *)
(***************************************************************************)
combine_outcomes(video_files) ==
  IF video_files = <<>> THEN {Return(PyNone)}                        \* line 585
  ELSE IF Len(video_files) = 1 THEN {Return(Str("ok")), Raise(MsgFfmpeg)}
  ELSE {Return(PyNone),                      \* line 620: no input file exists
        Return(Str("ok")), Raise(MsgFfmpeg)}

\* line 535, and lines 88-94 of process_videos on its result
combine_downloaded_videos(id) ==
  /\ LoopDone(id)
  /\ proc[id].downloaded_files # <<>>
  /\ \E r \in combine_outcomes(proc[id].downloaded_files) :
       /\ hist' = [hist EXCEPT ![id].handed = List(proc[id].downloaded_files),
                               ![id].stages = Append(@, "assembly")]
       /\ IF r.k = "raise" THEN Goto(id, "l150", [Unwound(id) EXCEPT !.exc = r.exc])
          ELSE IF ~Truthy(r.v) THEN Goto(id, "l90", Unwound(id))
          ELSE Goto(id, "l94",
                 [Unwound(id) EXCEPT !.combined_video_path = Str(combined_path(id))])
  /\ UNCHANGED <<TASKS, WHISPER_AVAILABLE, request>>

\* line 90
process_videos_l90(id) ==
  /\ At(id, "l90")
  /\ Write(id, "status", "error")
  /\ Goto(id, "l91", proc[id])
  /\ UNCHANGED <<WHISPER_AVAILABLE, hist, request>>

\* lines 91-92
process_videos_l91(id) ==
  /\ At(id, "l91")
  /\ Write(id, "error", MsgCombineNone)
  /\ Goto(id, "done", Unwound(id))
  /\ UNCHANGED <<WHISPER_AVAILABLE, hist, request>>

\* lines 93-94 left out: the 20% checkpoint is never written
process_videos_l94_unwritten(id) ==
  /\ At(id, "l94")
  /\ Goto(id, "l97", proc[id])
  /\ UNCHANGED <<TASKS, WHISPER_AVAILABLE, hist, request>>

\* lines 93-94
process_videos_l94(id) ==
  /\ At(id, "l94")
  /\ Write(id, "progress", 20)
  /\ Log(id, "progress", 20)
  /\ Goto(id, "l97", proc[id])
  /\ UNCHANGED <<WHISPER_AVAILABLE, request>>

\* line 150 left out: the handler records the message but not the status
process_videos_l150_unmarked(id) ==
  /\ At(id, "l150")
  /\ Goto(id, "l151", proc[id])
  /\ UNCHANGED <<TASKS, WHISPER_AVAILABLE, hist, request>>

\* line 150: the handler of every exception raised inside process_videos
process_videos_l150(id) ==
  /\ At(id, "l150")
  /\ Write(id, "status", "error")
  /\ Goto(id, "l151", proc[id])
  /\ UNCHANGED <<WHISPER_AVAILABLE, hist, request>>

\* line 151
process_videos_l151(id) ==
  /\ At(id, "l151")
  /\ Write(id, "error", proc[id].exc)
  /\ Goto(id, "done", Unwound(id))
  /\ UNCHANGED <<WHISPER_AVAILABLE, hist, request>>

(***************************************************************************)
(* Caption data.  Times are in milliseconds.                               *)
(***************************************************************************)
Cue(text, start, end) == [text |-> text, start |-> start, end |-> end]
Word(word, start, end) == [word |-> word, start |-> start, end |-> end]

\* str.strip() on the words of the model
strip(s) ==
  CASE s = " hello" -> "hello"
    [] s = " world" -> "world"
    [] s = " " -> ""
    [] OTHER -> s

\* what the speech engine may report for a clip (segments flattened, line 183)
Transcripts ==
  { <<>>,
    << Word(" hello", 0, 400), Word(" world", 500, 900) >>,
    << Word(" ", 0, 100) >> }

RECURSIVE JoinWith(_, _)
\* sep.join(parts)
JoinWith(parts, sep) ==
  IF parts = <<>> THEN ""
  ELSE IF Len(parts) = 1 THEN parts[1]
  ELSE parts[1] \o sep \o JoinWith(Tail(parts), sep)

RECURSIVE SumLen(_)
\* len of the line buffer: every word is followed by one space (lines 216, 227)
SumLen(cur) == IF cur = <<>> THEN 0 ELSE Len(cur[1]) + 1 + SumLen(Tail(cur))

RECURSIVE DropBlankHead(_)
DropBlankHead(cur) ==
  IF cur # <<>> /\ cur[1] = "" THEN DropBlankHead(Tail(cur)) ELSE cur
RECURSIVE DropBlankTail(_)
DropBlankTail(cur) ==
  IF cur # <<>> /\ cur[Len(cur)] = "" THEN DropBlankTail(SubSeq(cur, 1, Len(cur) - 1))
  ELSE cur
\* current_line.strip(), the buffer holding the words cur each followed by a space
StripLine(cur) == JoinWith(DropBlankTail(DropBlankHead(cur)), " ")

\* line_start before the first word (None in the code)
NoTime == -1

RECURSIVE convert_loop(_, _, _, _, _, _, _)
\* lines 208-237: the loop from word j on, then the flush of the last line
convert_loop(ws, j, cur, line_start, line_end, out, max_chars) ==
  IF j > Len(ws) THEN
    IF StripLine(cur) # "" THEN Append(out, Cue(StripLine(cur), line_start, line_end))
    ELSE out
  ELSE LET word == strip(ws[j].word)
           start == IF line_start = NoTime THEN ws[j].start ELSE line_start
       IN IF SumLen(cur) + Len(word) <= max_chars
          THEN convert_loop(ws, j + 1, Append(cur, word), start, ws[j].end, out, max_chars)
          ELSE convert_loop(ws, j + 1, <<word>>, ws[j].start, ws[j].end,
                 IF StripLine(cur) # "" THEN Append(out, Cue(StripLine(cur), start, line_end))
                 ELSE out, max_chars)

\* the default of max_chars (line 201)
DefaultMaxChars == 47

RECURSIVE convert_loop_stale_start(_, _, _, _, _, _, _)
\* lines 208-237 with line 228 left out: a line begun after a flush keeps the
\* start of the line before it
convert_loop_stale_start(ws, j, cur, line_start, line_end, out, max_chars) ==
  IF j > Len(ws) THEN
    IF StripLine(cur) # "" THEN Append(out, Cue(StripLine(cur), line_start, line_end))
    ELSE out
  ELSE LET word == strip(ws[j].word)
           start == IF line_start = NoTime THEN ws[j].start ELSE line_start
       IN IF SumLen(cur) + Len(word) <= max_chars
          THEN convert_loop_stale_start(ws, j + 1, Append(cur, word), start, ws[j].end,
                 out, max_chars)
          ELSE convert_loop_stale_start(ws, j + 1, <<word>>, start, ws[j].end,
                 IF StripLine(cur) # "" THEN Append(out, Cue(StripLine(cur), start, line_end))
                 ELSE out, max_chars)

\* lines 201-239 with the budget test of line 215 off by one
convert_to_line_level_loose(word_level_info, max_chars) ==
  convert_loop(word_level_info, 1, <<>>, NoTime, NoTime, <<>>, max_chars + 1)
\* lines 201-239 with line 228 left out
convert_to_line_level_stale_start(word_level_info, max_chars) ==
  convert_loop_stale_start(word_level_info, 1, <<>>, NoTime, NoTime, <<>>, max_chars)

\* lines 201-239 with the budget test of line 215 counting the space appended
\* after the word
convert_to_line_level_eager(word_level_info, max_chars) ==
  convert_loop(word_level_info, 1, <<>>, NoTime, NoTime, <<>>, max_chars - 1)

\* VideoProcessor.convert_to_line_level (lines 201-239)
convert_to_line_level(word_level_info, max_chars) ==
  convert_loop(word_level_info, 1, <<>>, NoTime, NoTime, <<>>, max_chars)

(***************************************************************************)
(* Caption scripts (the 'srt' key of the payload) and pysrt's reading of   *)
(* them.                                                                   *)
(***************************************************************************)
SrtTime(h, m, sec, ms) == [hours |-> h, minutes |-> m, seconds |-> sec, milliseconds |-> ms]
\* one item of a parsed script; text holds the entry's lines
SrtItem(start, end, text) == [start |-> start, end |-> end, text |-> text]

ScriptA == "1\n00:00:00,000 --> 00:00:03,000\nHello world\n\n2\n01:02:03,450 --> 01:02:06,500\nSecond\nline"
ScriptBad == "not a script"

\* pysrt.open(path) on a file holding content: the items, or an exception
pysrt_open(content) ==
  CASE content = ScriptA ->
         Return(<< SrtItem(SrtTime(0, 0, 0, 0), SrtTime(0, 0, 3, 0), <<"Hello world">>),
                   SrtItem(SrtTime(1, 2, 3, 450), SrtTime(1, 2, 6, 500), <<"Second", "line">>) >>)
    [] OTHER -> Raise("pysrt error")

\* lines 248-256 without the milliseconds term (lines 251, 256)
srt_seconds_whole(t) == (t.hours * 3600 + t.minutes * 60 + t.seconds) * 1000

\* lines 248-256, in milliseconds
srt_seconds(t) == (t.hours * 3600 + t.minutes * 60 + t.seconds) * 1000 + t.milliseconds

RECURSIVE MapItems(_)
MapItems(subs) ==
  IF subs = <<>> THEN <<>>
  ELSE <<Cue(JoinWith(subs[1].text, " "), srt_seconds(subs[1].start), srt_seconds(subs[1].end))>>
       \o MapItems(Tail(subs))

\* VideoProcessor.parse_srt_to_line_level (lines 241-268) on the file save wrote,
\* or on None when the save failed (line 509)
parse_srt_to_line_level(saved, content) ==
  IF ~saved THEN PyNone                       \* pysrt.open(None) raises
  ELSE LET subs == pysrt_open(content)
       IN IF subs.k = "raise" THEN PyNone ELSE List(MapItems(subs.v))

\* VideoProcessor.save_subtitles_from_webhook (lines 500-509): whether the file
\* was written; writing a non-str content raises, as any I/O error does
save_outcomes(subtitles_content) ==
  IF subtitles_content.t = "str" THEN BOOLEAN ELSE {FALSE}

(***************************************************************************)
(* Tier 3: text from the descriptors.                                      *)
(***************************************************************************)
\* text.split() on the texts of the model
split(text) ==
  CASE text = "a b" -> <<"a", "b">>
    [] text = "clip" -> <<"clip">>
    [] text = "hello world" -> <<"hello", "world">>
    [] text = "Hello world" -> <<"Hello", "world">>
    [] text = "Second line" -> <<"Second", "line">>
    [] OTHER -> <<>>

\* str.lower() on the words of the model
lower(s) ==
  CASE s = "Hello" -> "hello"
    [] s = "Second" -> "second"
    [] OTHER -> s

\* VideoProcessor.clean_text_for_speech (lines 671-695) on the texts of the
\* model, none of which holds a url, a listed term or the listed phrases
clean_text_for_speech(text_input) == JoinWith(split(text_input), " ")

\* lines 651-662: the raw text of one descriptor
raw_text(video_info) ==
  IF video_info.t = "dict" THEN
    LET description == IF HasKey(video_info, "description") THEN Get(video_info, "description")
                       ELSE Str("")
        title == IF HasKey(video_info, "title") THEN Get(video_info, "title") ELSE Str("")
    IN IF Truthy(description) /\ Truthy(title) THEN title.v \o ". " \o description.v
       ELSE IF Truthy(description) THEN description.v
       ELSE IF Truthy(title) THEN title.v
       ELSE ""
  ELSE IF video_info.t = "str" THEN video_info.v
  ELSE ""

RECURSIVE text_parts(_)
text_parts(video_data) ==
  IF video_data = <<>> THEN <<>>
  ELSE LET raw == raw_text(video_data[1])
           cleaned == IF raw # "" THEN clean_text_for_speech(raw) ELSE ""
       IN (IF cleaned # "" THEN <<cleaned>> ELSE <<>>) \o text_parts(Tail(video_data))

\* VideoProcessor.extract_text_from_videos (lines 647-669)
extract_text_from_videos(video_data) == JoinWith(text_parts(video_data), "\n\n")

RECURSIVE all_words(_)
\* text.split() of the joined text: the words of every part, in order
all_words(parts) == IF parts = <<>> THEN <<>> ELSE split(parts[1]) \o all_words(Tail(parts))

subtitle_duration == 3
words_per_subtitle == 6

RECURSIVE group_words(_, _)
\* lines 705-715, from word index i (0-based) on
group_words(words, i) ==
  IF i >= Len(words) THEN <<>>
  ELSE LET start_time == (i \div words_per_subtitle) * subtitle_duration * 1000
           last == IF i + words_per_subtitle < Len(words) THEN i + words_per_subtitle
                   ELSE Len(words)
       IN <<Cue(JoinWith(SubSeq(words, i + 1, last), " "), start_time,
                start_time + subtitle_duration * 1000)>>
          \o group_words(words, i + words_per_subtitle)

RECURSIVE group_words_index_start(_, _)
\* lines 705-715 with line 706 taking the word index for the group index
group_words_index_start(words, i) ==
  IF i >= Len(words) THEN <<>>
  ELSE LET start_time == i * subtitle_duration * 1000
           last == IF i + words_per_subtitle < Len(words) THEN i + words_per_subtitle
                   ELSE Len(words)
       IN <<Cue(JoinWith(SubSeq(words, i + 1, last), " "), start_time,
                start_time + subtitle_duration * 1000)>>
          \o group_words_index_start(words, i + words_per_subtitle)
generate_subtitles_from_text_index_start(words) == group_words_index_start(words, 0)

\* VideoProcessor.generate_subtitles_from_text (lines 697-717), on the words of text
generate_subtitles_from_text(words) == group_words(words, 0)

(***************************************************************************)
(* handle_webhook (lines 720-789): the accepted request.                   *)
(***************************************************************************)
SrtInputs == {PyNone, Str(ScriptA), Str(ScriptBad)}

handle_webhook ==
  \E task_id \in TaskIds \ DOMAIN TASKS, video_list \in VideoLists,
     subtitles_content \in SrtInputs :
    /\ TASKS' = Put(TASKS, task_id,
         [status |-> "initiated", progress |-> 0, video_data |-> video_list,
          video_count |-> Len(video_list),
          has_custom_subtitles |-> Truthy(subtitles_content),
          output_file |-> Absent, error |-> Absent])
    /\ proc' = Put(proc, task_id,
         [NoLocals @@ [pc |-> "l83", subtitles_content |-> subtitles_content]
            EXCEPT !.pc = "l83"])
    /\ hist' = Put(hist, task_id, NoHistory)
    /\ UNCHANGED <<WHISPER_AVAILABLE, request>>

(***************************************************************************)
(* process_videos, lines 96-124: caption resolution.                       *)
(***************************************************************************)
\* VideoProcessor.check_audio_exists (lines 155-162) at line 97: the probe's
\* answer, False when the probe fails
check_audio_exists(id) ==
  /\ At(id, "l97")
  /\ \E has_audio \in BOOLEAN : Goto(id, "l103", [proc[id] EXCEPT !.has_audio = has_audio])
  /\ UNCHANGED <<TASKS, WHISPER_AVAILABLE, hist, request>>

RECURSIVE StripWords(_)
\* line 186
StripWords(ws) ==
  IF ws = <<>> THEN <<>>
  ELSE <<Word(strip(ws[1].word), ws[1].start, ws[1].end)>> \o StripWords(Tail(ws))

\* VideoProcessor.extract_word_timestamps (lines 164-199): the words, or None
\* when extracting the audio or the engine fails
word_timestamp_outcomes == {PyNone} \cup {List(StripWords(t)) : t \in Transcripts}

\* lines 103-108
tier1(id) ==
  /\ At(id, "l103")
  /\ IF proc[id].has_audio /\ WHISPER_AVAILABLE THEN
       \E word_level_info \in word_timestamp_outcomes :
         /\ Goto(id, "l111",
              [proc[id] EXCEPT !.word_level_info = word_level_info,
                 !.line_level_subtitles =
                    IF Truthy(word_level_info)
                    THEN List(convert_to_line_level(word_level_info.e, DefaultMaxChars))
                    ELSE @])
         /\ Log(id, "stages", "tier1")
     ELSE Goto(id, "l111", proc[id]) /\ UNCHANGED hist
  /\ UNCHANGED <<TASKS, WHISPER_AVAILABLE, request>>

\* lines 111-114 with the exception of a failed save (line 507) and of a failed
\* parse (line 266) leaving process_videos
tier2_unguarded(id) ==
  /\ At(id, "l111")
  /\ IF ~Truthy(proc[id].word_level_info) /\ Truthy(proc[id].subtitles_content) THEN
       \E saved \in save_outcomes(proc[id].subtitles_content) :
         LET parsed == parse_srt_to_line_level(saved, proc[id].subtitles_content.v)
         IN /\ IF parsed = PyNone
               THEN Goto(id, "l150", [Unwound(id) EXCEPT !.exc = "pysrt error"])
               ELSE Goto(id, "l117", [proc[id] EXCEPT !.line_level_subtitles = parsed])
            /\ Log(id, "stages", "tier2")
     ELSE Goto(id, "l117", proc[id]) /\ UNCHANGED hist
  /\ UNCHANGED <<TASKS, WHISPER_AVAILABLE, request>>

\* lines 111-114
tier2(id) ==
  /\ At(id, "l111")
  /\ IF ~Truthy(proc[id].word_level_info) /\ Truthy(proc[id].subtitles_content) THEN
       \E saved \in save_outcomes(proc[id].subtitles_content) :
         /\ Goto(id, "l117",
              [proc[id] EXCEPT !.line_level_subtitles =
                 parse_srt_to_line_level(saved, proc[id].subtitles_content.v)])
         /\ Log(id, "stages", "tier2")
     ELSE Goto(id, "l117", proc[id]) /\ UNCHANGED hist
  /\ UNCHANGED <<TASKS, WHISPER_AVAILABLE, request>>

\* lines 117-121 without the test of line 117: Tier 3 replaces the cues at hand
tier3_always(id) ==
  /\ At(id, "l117")
  /\ Goto(id, "l124",
       [proc[id] EXCEPT !.line_level_subtitles =
          IF extract_text_from_videos(TASKS[id].video_data) # ""
          THEN List(generate_subtitles_from_text(
                      all_words(text_parts(TASKS[id].video_data))))
          ELSE @])
  /\ Log(id, "stages", "tier3")
  /\ UNCHANGED <<TASKS, WHISPER_AVAILABLE, request>>

\* lines 117-121
tier3(id) ==
  /\ At(id, "l117")
  /\ IF ~Truthy(proc[id].line_level_subtitles) THEN
       /\ Goto(id, "l124",
            [proc[id] EXCEPT !.line_level_subtitles =
               IF extract_text_from_videos(TASKS[id].video_data) # ""
               THEN List(generate_subtitles_from_text(
                           all_words(text_parts(TASKS[id].video_data))))
               ELSE @])
       /\ Log(id, "stages", "tier3")
     ELSE Goto(id, "l124", proc[id]) /\ UNCHANGED hist
  /\ UNCHANGED <<TASKS, WHISPER_AVAILABLE, request>>

\* lines 123-124, and the call at line 127
process_videos_l124(id) ==
  /\ At(id, "l124")
  /\ Write(id, "progress", 70)
  /\ hist' = [hist EXCEPT ![id].progress = Append(@, 70),
                          ![id].cues = Truthy(proc[id].line_level_subtitles)]
  /\ Goto(id, "l276", proc[id])
  /\ UNCHANGED <<WHISPER_AVAILABLE, request>>

(***************************************************************************)
(* Caption rendering: create_scrolling_subtitles_video (lines 270-329),    *)
(* create_ass_subtitles (331-369), create_fallback_video (410-451).  Every *)
(* call of the transcoding engine and every file write succeeds or fails   *)
(* as the environment decides.                                             *)
(***************************************************************************)
ass_file(task_id) == TEMP_DIR \o "/subtitles_" \o task_id \o ".ass"
scrolling_output(task_id) == OUTPUT_DIR \o "/final_scrolling_subtitles_" \o task_id \o ".mp4"
fallback_output(task_id) == OUTPUT_DIR \o "/final_fallback_" \o task_id \o ".mp4"

SeqToSet(q) == {q[j] : j \in 1..Len(q)}

\* line 387-388: the word belongs to the line
word_in_line(line, word_info) ==
  /\ line.start <= word_info.start /\ word_info.start <= line.end
  /\ lower(strip(word_info.word)) \in {lower(w) : w \in SeqToSet(split(line.text))}

\* create_word_highlight_effect (lines 402-408) formats a float with ':+d' and so
\* raises ValueError whenever add_word_highlights reaches line 398
highlight_raises(word_level_info, line_level_subtitles) ==
  /\ Truthy(line_level_subtitles) /\ Truthy(word_level_info)
  /\ \E line \in SeqToSet(line_level_subtitles.e), w \in SeqToSet(word_level_info.e) :
       word_in_line(line, w)

\* create_ass_subtitles: whether the file was written; None on any exception
ass_outcomes(word_level_info, line_level_subtitles) ==
  IF highlight_raises(word_level_info, line_level_subtitles) THEN {FALSE} ELSE BOOLEAN

Rendered(id, event) == hist' = [hist EXCEPT ![id].render = Append(@, event)]

\* line 276 with a worker that gives up when it holds no cues
create_ass_subtitles_cues_required(id) ==
  /\ At(id, "l276")
  /\ IF ~Truthy(proc[id].line_level_subtitles)
     THEN Goto(id, "l150", [Unwound(id) EXCEPT !.exc = "no subtitles"]) /\ UNCHANGED hist
     ELSE \E written \in ass_outcomes(proc[id].word_level_info, proc[id].line_level_subtitles) :
            /\ Goto(id, "l280",
                 [proc[id] EXCEPT !.ass_path = IF written THEN Str(ass_file(id)) ELSE PyNone])
            /\ Rendered(id, IF written THEN "ass_built" ELSE "ass_failed")
  /\ UNCHANGED <<TASKS, WHISPER_AVAILABLE, request>>

\* line 276
create_ass_subtitles(id) ==
  /\ At(id, "l276")
  /\ \E written \in ass_outcomes(proc[id].word_level_info, proc[id].line_level_subtitles) :
       /\ Goto(id, "l280",
            [proc[id] EXCEPT !.ass_path = IF written THEN Str(ass_file(id)) ELSE PyNone])
       /\ Rendered(id, IF written THEN "ass_built" ELSE "ass_failed")
  /\ UNCHANGED <<TASKS, WHISPER_AVAILABLE, request>>

\* lines 280-305 and 320-329: the primary burn-in of the .ass file
burn_ass(id) ==
  /\ At(id, "l280")
  /\ Truthy(proc[id].ass_path)
  /\ \E ok \in BOOLEAN :
       /\ IF ok THEN Goto(id, "l140", [proc[id] EXCEPT !.final_video_path =
                                          Str(scrolling_output(id))])
          ELSE Goto(id, "l412", proc[id])
       /\ Rendered(id, IF ok THEN "burn_ass_ok" ELSE "burn_ass_failed")
  /\ UNCHANGED <<TASKS, WHISPER_AVAILABLE, request>>

\* lines 306-318 and 320-329: no .ass file, the video is copied without subtitles
copy_without_ass(id) ==
  /\ At(id, "l280")
  /\ ~Truthy(proc[id].ass_path)
  /\ \E ok \in BOOLEAN :
       /\ IF ok THEN Goto(id, "l140", [proc[id] EXCEPT !.final_video_path =
                                          Str(scrolling_output(id))])
          ELSE Goto(id, "l412", proc[id])
       /\ Rendered(id, IF ok THEN "copy_ok" ELSE "copy_failed")
  /\ UNCHANGED <<TASKS, WHISPER_AVAILABLE, request>>

\* create_fallback_video, lines 417-439: the .srt file is written (create_simple_srt,
\* lines 467-488) and burnt in; a failed burn-in raises at line 451
fallback_burn_srt(id) ==
  /\ At(id, "l412")
  /\ Truthy(proc[id].line_level_subtitles)
  /\ \E ok \in BOOLEAN :
       /\ IF ok THEN Goto(id, "l140", [proc[id] EXCEPT !.final_video_path =
                                          Str(fallback_output(id))])
          ELSE Goto(id, "l150", [Unwound(id) EXCEPT !.exc = MsgCritical])
       /\ hist' = [hist EXCEPT ![id].render =
                     @ \o <<"srt_built", IF ok THEN "burn_srt_ok" ELSE "burn_srt_failed">>]
  /\ UNCHANGED <<TASKS, WHISPER_AVAILABLE, request>>

\* lines 440-451 with the exception of the failed copy escaping the handler of
\* line 147: the thread ends and nothing is recorded
fallback_copy_uncaught(id) ==
  /\ At(id, "l412")
  /\ \E ok \in BOOLEAN :
       /\ IF ok THEN Goto(id, "l140", [proc[id] EXCEPT !.final_video_path =
                                          Str(fallback_output(id))])
          ELSE Goto(id, "done", [Unwound(id) EXCEPT !.exc = MsgCritical])
       /\ hist' = [hist EXCEPT ![id].render =
                     @ \o <<IF ok THEN "fallback_copy_ok" ELSE "fallback_copy_failed">>]
  /\ UNCHANGED <<TASKS, WHISPER_AVAILABLE, request>>

\* create_fallback_video, lines 440-445 with copy_video_without_subtitles
\* (453-465): no cues, or the .srt file could not be written
fallback_copy(id) ==
  /\ At(id, "l412")
  /\ \E ok \in BOOLEAN :
       /\ IF ok THEN Goto(id, "l140", [proc[id] EXCEPT !.final_video_path =
                                          Str(fallback_output(id))])
          ELSE Goto(id, "l150", [Unwound(id) EXCEPT !.exc = MsgCritical])
       /\ hist' = [hist EXCEPT ![id].render =
                     @ \o (IF Truthy(proc[id].line_level_subtitles) THEN <<"srt_failed">>
                           ELSE <<>>)
                       \o <<IF ok THEN "fallback_copy_ok" ELSE "fallback_copy_failed">>]
  /\ UNCHANGED <<TASKS, WHISPER_AVAILABLE, request>>

(***************************************************************************)
(* process_videos, lines 134-145.  create_scrolling_subtitles_video        *)
(* returns a path or raises, so lines 135-137 are never reached.           *)
(***************************************************************************)
\* lines 139-140
process_videos_l140(id) ==
  /\ At(id, "l140")
  /\ Truthy(proc[id].final_video_path)
  /\ Write(id, "progress", 100)
  /\ Log(id, "progress", 100)
  /\ Goto(id, "l143", proc[id])
  /\ UNCHANGED <<WHISPER_AVAILABLE, request>>

\* line 143 left out: the output file is recorded on a task still processing
process_videos_l143_unmarked(id) ==
  /\ At(id, "l143")
  /\ Goto(id, "l144", proc[id])
  /\ UNCHANGED <<TASKS, WHISPER_AVAILABLE, hist, request>>

\* line 143
process_videos_l143(id) ==
  /\ At(id, "l143")
  /\ Write(id, "status", "completed")
  /\ Goto(id, "l144", proc[id])
  /\ UNCHANGED <<WHISPER_AVAILABLE, hist, request>>

\* lines 144-145
process_videos_l144(id) ==
  /\ At(id, "l144")
  /\ Write(id, "output_file", proc[id].final_video_path.v)
  /\ Goto(id, "done", Unwound(id))
  /\ UNCHANGED <<WHISPER_AVAILABLE, hist, request>>

(***************************************************************************)
(* The endpoints that read the registry.  A request runs in its own        *)
(* thread: each read of the entry is a step of its own, and the worker may *)
(* write between two reads.                                                *)
(***************************************************************************)
MsgNotFound == "Zadacha ne naydena"
MsgNotReady == "Video eshche ne gotovo"
MsgFileMissing == "Fayl ne nayden"
MsgUnknown == "Neizvestnaya oshibka"

\* the response being built; Absent marks a key the response does not carry,
\* found is the outcome of `task_id not in TASKS` (lines 793, 820)
NewRequest(kind, task_id, pc) ==
  [pc |-> pc, kind |-> kind, task_id |-> task_id, found |-> pc # "respond",
   code |-> 200, status |-> Absent,
   progress |-> 0, download_url |-> Absent, output_file |-> Absent, error |-> Absent,
   file |-> Absent]

Serving(kind, pc) == request.pc = pc /\ request.kind = kind

\* task_info.get(key, default)
GetOr(entry, key, default) == IF entry[key] = Absent THEN default ELSE entry[key]

\* get_task_status, lines 793-796
get_task_status(task_id) ==
  /\ request.pc = "idle"
  /\ request' = IF task_id \in DOMAIN TASKS THEN NewRequest("status", task_id, "l799")
                ELSE [NewRequest("status", task_id, "respond")
                        EXCEPT !.code = 404, !.error = MsgNotFound]
  /\ UNCHANGED <<TASKS, WHISPER_AVAILABLE, proc, hist>>

\* line 799
get_task_status_l799 ==
  /\ Serving("status", "l799")
  /\ request' = [request EXCEPT !.pc = "l800", !.status = TASKS[request.task_id].status]
  /\ UNCHANGED <<TASKS, WHISPER_AVAILABLE, proc, hist>>

\* lines 800-803
get_task_status_l800 ==
  /\ Serving("status", "l800")
  /\ request' = [request EXCEPT !.pc = "l806", !.progress = TASKS[request.task_id].progress]
  /\ UNCHANGED <<TASKS, WHISPER_AVAILABLE, proc, hist>>

\* lines 806-807: the status is read again
get_task_status_l806 ==
  /\ Serving("status", "l806")
  /\ request' = IF TASKS[request.task_id].status = "completed"
                THEN [request EXCEPT !.pc = "l808",
                        !.download_url = "/download/" \o request.task_id]
                ELSE [request EXCEPT !.pc = "l810"]
  /\ UNCHANGED <<TASKS, WHISPER_AVAILABLE, proc, hist>>

\* line 808
get_task_status_l808 ==
  /\ Serving("status", "l808")
  /\ request' = [request EXCEPT !.pc = "l810",
                   !.output_file = GetOr(TASKS[request.task_id], "output_file", "")]
  /\ UNCHANGED <<TASKS, WHISPER_AVAILABLE, proc, hist>>

\* line 810: the status is read a third time
get_task_status_l810 ==
  /\ Serving("status", "l810")
  /\ request' = [request EXCEPT !.pc = IF TASKS[request.task_id].status = "error"
                                       THEN "l811" ELSE "respond"]
  /\ UNCHANGED <<TASKS, WHISPER_AVAILABLE, proc, hist>>

\* line 811
get_task_status_l811 ==
  /\ Serving("status", "l811")
  /\ request' = [request EXCEPT !.pc = "respond",
                   !.error = GetOr(TASKS[request.task_id], "error", MsgUnknown)]
  /\ UNCHANGED <<TASKS, WHISPER_AVAILABLE, proc, hist>>

\* os.path.exists(path): the registry only ever holds paths of rendered files
exists(path) == path # ""

\* download_video, lines 820-823
download_video(task_id) ==
  /\ request.pc = "idle"
  /\ request' = IF task_id \in DOMAIN TASKS THEN NewRequest("download", task_id, "l824")
                ELSE [NewRequest("download", task_id, "respond")
                        EXCEPT !.code = 404, !.error = MsgNotFound]
  /\ UNCHANGED <<TASKS, WHISPER_AVAILABLE, proc, hist>>

\* lines 824-825
download_video_l824 ==
  /\ Serving("download", "l824")
  /\ request' = IF TASKS[request.task_id].status # "completed"
                THEN [request EXCEPT !.pc = "respond", !.code = 400, !.error = MsgNotReady,
                        !.status = TASKS[request.task_id].status]
                ELSE [request EXCEPT !.pc = "l827", !.status = "completed"]
  /\ UNCHANGED <<TASKS, WHISPER_AVAILABLE, proc, hist>>

\* lines 827-835
download_video_l827 ==
  /\ Serving("download", "l827")
  /\ LET output_file == GetOr(TASKS[request.task_id], "output_file", "")
     IN request' = IF exists(output_file)
                   THEN [request EXCEPT !.pc = "respond", !.file = output_file]
                   ELSE [request EXCEPT !.pc = "respond", !.code = 404,
                           !.error = MsgFileMissing]
  /\ UNCHANGED <<TASKS, WHISPER_AVAILABLE, proc, hist>>

\* the response leaves (lines 794, 816, 821, 825, 829, 831)
respond ==
  /\ request.pc = "respond"
  /\ request' = NoRequest
  /\ UNCHANGED <<TASKS, WHISPER_AVAILABLE, proc, hist>>

(***************************************************************************)
(* The system.                                                             *)
(***************************************************************************)
Worker(id) ==
  \/ process_videos_l83(id) \/ process_videos_l85(id)
  \/ extract_raises(id) \/ skip_descriptor(id) \/ download_clip(id)
  \/ no_video_downloaded(id) \/ combine_downloaded_videos(id)
  \/ process_videos_l90(id) \/ process_videos_l91(id) \/ process_videos_l94(id)
  \/ check_audio_exists(id) \/ tier1(id) \/ tier2(id) \/ tier3(id)
  \/ process_videos_l124(id)
  \/ create_ass_subtitles(id) \/ burn_ass(id) \/ copy_without_ass(id)
  \/ fallback_burn_srt(id) \/ fallback_copy(id)
  \/ process_videos_l140(id) \/ process_videos_l143(id) \/ process_videos_l144(id)
  \/ process_videos_l150(id) \/ process_videos_l151(id)

Endpoint ==
  \/ \E task_id \in AskedIds : get_task_status(task_id) \/ download_video(task_id)
  \/ get_task_status_l799 \/ get_task_status_l800 \/ get_task_status_l806
  \/ get_task_status_l808 \/ get_task_status_l810 \/ get_task_status_l811
  \/ download_video_l824 \/ download_video_l827
  \/ respond

Next ==
  \/ handle_webhook
  \/ \E id \in TaskIds : Worker(id)
  \/ Endpoint

Spec == Init /\ [][Next]_vars

\* The intake and the workers alone: the status and download endpoints only
\* read the registry and cannot hold a worker up.
WorkerNext ==
  \/ handle_webhook
  \/ \E id \in TaskIds : Worker(id)

\* the thread started at lines 773-775 is scheduled until process_videos
\* returns, every external call it makes returning with success or failure
FairSpec == Init /\ [][WorkerNext]_vars /\ \A id \in TaskIds : WF_vars(Worker(id))

(***************************************************************************)
(* create_ass_subtitles (lines 331-369) called on its own: what it writes  *)
(* to the .ass file for given word timings and cues.                       *)
(***************************************************************************)
\* longest word list and longest cue list handed to a method called on its own
MaxWords == 2
MaxLines == 2

\* seconds_to_ass_time (lines 371-377): truncation to centiseconds
seconds_to_ass_time(t) ==
  [hours |-> t \div 3600000, minutes |-> (t % 3600000) \div 60000,
   secs |-> (t % 60000) \div 1000, centiseconds |-> (t % 1000) \div 10]

\* one line of the [Events] section (lines 356, 400)
Dialogue(layer, start, end, style, text) ==
  [layer |-> layer, start |-> start, end |-> end, style |-> style, text |-> text]

ValueErrorFormat == "Unknown format code 'd' for object of type 'float'"
OSErrorWrite == "cannot write file"

\* create_word_highlight_effect (lines 402-408): x_offset is a float (line 405
\* divides with /), and line 408 formats it with ':+d'
create_word_highlight_effect(word, word_index, total_words) == Raise(ValueErrorFormat)

\* index of the first token of the line equal to the word, 0 if none (lines 394-395)
word_index(words_in_line, word) ==
  LET hits == {j \in 1..Len(words_in_line) : lower(words_in_line[j]) = lower(word)}
  IN IF hits = {} THEN 0 ELSE (CHOOSE j \in hits : \A h \in hits : j <= h) - 1

RECURSIVE add_word_highlights(_, _, _)
\* add_word_highlights (lines 379-400) from the first word of word_level_info on.
\* ass_content is the method's own name for the caller's str: line 400 rebinds
\* it, the caller's text does not change and nothing is returned
add_word_highlights(ass_content, line, word_level_info) ==
  IF word_level_info = <<>> THEN Return(PyNone)
  ELSE LET word_info == word_level_info[1]
           word == strip(word_info.word)
           words_in_line == split(line.text)
       IN IF word_in_line(line, word_info) THEN
            LET highlight_text ==
                  create_word_highlight_effect(word, word_index(words_in_line, word),
                                               Len(words_in_line))
            IN IF highlight_text.k = "raise" THEN highlight_text
               ELSE add_word_highlights(
                      Append(ass_content,
                             Dialogue(1, seconds_to_ass_time(word_info.start),
                                      seconds_to_ass_time(word_info.end), "Highlight",
                                      highlight_text.v)),
                      line, Tail(word_level_info))
          ELSE add_word_highlights(ass_content, line, Tail(word_level_info))

RECURSIVE ass_events_window_only(_, _, _)
\* lines 350-360 with the highlight of every word whose start lies in the line's
\* window appended to the text that is written, whatever the word
ass_events_window_only(ass_content, word_level_info, line_level_subtitles) ==
  IF ~Truthy(line_level_subtitles) \/ line_level_subtitles.e = <<>> THEN Return(ass_content)
  ELSE LET line == line_level_subtitles.e[1]
           inWindow == IF Truthy(word_level_info)
                       THEN SelectSeq(word_level_info.e,
                              LAMBDA w : line.start <= w.start /\ w.start <= line.end)
                       ELSE <<>>
       IN ass_events_window_only(
            Append(ass_content,
                   Dialogue(0, seconds_to_ass_time(line.start),
                            seconds_to_ass_time(line.end), "Default", line.text))
              \o [j \in 1..Len(inWindow) |->
                    Dialogue(1, seconds_to_ass_time(inWindow[j].start),
                             seconds_to_ass_time(inWindow[j].end), "Highlight",
                             inWindow[j].word)],
            word_level_info, List(Tail(line_level_subtitles.e)))

RECURSIVE ass_events(_, _, _)
\* lines 350-360: the events added to ass_content, or the exception raised
ass_events(ass_content, word_level_info, line_level_subtitles) ==
  IF ~Truthy(line_level_subtitles) \/ line_level_subtitles.e = <<>> THEN Return(ass_content)
  ELSE LET line == line_level_subtitles.e[1]
           with_line == Append(ass_content,
                          Dialogue(0, seconds_to_ass_time(line.start),
                                   seconds_to_ass_time(line.end), "Default", line.text))
           added == IF Truthy(word_level_info)
                    THEN add_word_highlights(with_line, line, word_level_info.e)
                    ELSE Return(PyNone)
       IN IF added.k = "raise" THEN added
          ELSE ass_events(with_line, word_level_info, List(Tail(line_level_subtitles.e)))

\* word timings and cues the method is called with
WordA == Word("hello", 0, 400)
WordB == Word("Second", 500, 900)
WordC == Word("line", 3000, 3500)
WordD == Word("", 0, 100)
WordInputs ==
  {PyNone} \cup {List(l) : l \in ListsUpTo({WordA, WordB, WordC, WordD}, MaxWords)}
CueA == Cue("Hello world", 0, 3000)
CueB == Cue("Second line", 3000, 6000)
LineInputs == {PyNone} \cup {List(l) : l \in ListsUpTo({CueA, CueB}, MaxLines)}

\* nothing but the worker's locals is in use while a method is called on its own
Direct(locals) ==
  /\ TASKS = [id \in {} |-> 0]
  /\ WHISPER_AVAILABLE = TRUE
  /\ request = NoRequest
  /\ proc = [id \in TaskIds |-> locals]

AssInit ==
  \E w \in WordInputs, l \in LineInputs :
    /\ Direct([NoLocals EXCEPT !.word_level_info = w, !.line_level_subtitles = l]
                @@ [pc |-> "l331"])
    /\ hist = [id \in TaskIds |-> [file |-> PyNone]]

\* lines 333-369: the events are built and the file is written; any exception
\* ends in `return None` (line 369) with no file
call_create_ass_subtitles(id) ==
  /\ At(id, "l331")
  /\ LET built == ass_events(<<>>, proc[id].word_level_info, proc[id].line_level_subtitles)
     IN \E r \in (IF built.k = "raise" THEN {built} ELSE {built, Raise(OSErrorWrite)}) :
          /\ Goto(id, "l365",
               IF r.k = "raise" THEN [proc[id] EXCEPT !.exc = r.exc]
               ELSE [proc[id] EXCEPT !.ass_path = Str(ass_file(id))])
          /\ hist' = [hist EXCEPT ![id].file = IF r.k = "raise" THEN PyNone ELSE List(r.v)]
  /\ UNCHANGED <<TASKS, WHISPER_AVAILABLE, request>>

AssNext == \E id \in TaskIds : call_create_ass_subtitles(id)

AssSpec == AssInit /\ [][AssNext]_vars

(***************************************************************************)
(* convert_to_line_level (lines 201-239) called on its own.                *)
(***************************************************************************)
\* longest word list handed to the packer, and largest budget besides the default
MaxPack == 4
MaxBudget == 5

\* the words the engine reports: plain, blank, padded, and longer than MaxBudget
PackWords == {"a", "bb", " ", " hello", "cccccccc"}
\* word j of the list is spoken from second j - 1 for 400 ms
TimedWords(texts) ==
  [j \in 1..Len(texts) |-> Word(texts[j], (j - 1) * 1000, (j - 1) * 1000 + 400)]
PackInputs == {TimedWords(texts) : texts \in ListsUpTo(PackWords, MaxPack)}
Budgets == 0..MaxBudget \cup {DefaultMaxChars}

PackInit ==
  \E ws \in PackInputs, max_chars \in Budgets :
    /\ Direct([NoLocals EXCEPT !.word_level_info = List(ws)]
                @@ [pc |-> "l201", max_chars |-> max_chars])
    /\ hist = [id \in TaskIds |-> NoHistory]

call_convert_to_line_level(id) ==
  /\ At(id, "l201")
  /\ Goto(id, "l239",
       [proc[id] EXCEPT !.line_level_subtitles =
          List(convert_to_line_level(proc[id].word_level_info.e, proc[id].max_chars))])
  /\ UNCHANGED <<TASKS, WHISPER_AVAILABLE, hist, request>>

PackNext == \E id \in TaskIds : call_convert_to_line_level(id)

PackSpec == PackInit /\ [][PackNext]_vars

(***************************************************************************)
(* format_srt_time (lines 490-497) and the reading of a timestamp by       *)
(* pysrt and parse_srt_to_line_level (lines 245-256), called one after the *)
(* other.  A time is a number of milliseconds; a timestamp is the sequence *)
(* of its characters.                                                      *)
(***************************************************************************)
\* largest hour count of a time handed to format_srt_time
MaxHours == 1

TimeInputs ==
  {((h * 60 + m) * 60 + sec) * 1000 + ms :
     h \in 0..MaxHours, m \in {0, 1, 59}, sec \in {0, 3, 59}, ms \in {0, 1, 400, 999}}

RECURSIVE Digits(_)
\* str(n) for n >= 0
Digits(n) == IF n < 10 THEN <<ToString(n)>> ELSE Append(Digits(n \div 10), ToString(n % 10))
RECURSIVE ZeroPad(_, _)
\* the format spec 0<width>d
ZeroPad(chars, width) == IF Len(chars) >= width THEN chars ELSE ZeroPad(<<"0">> \o chars, width)

\* line 495 with centiseconds in place of milliseconds, as line 376 has them
format_centisecs(t) == {(t % 1000) \div 10}

\* line 495, int((seconds % 1) * 1000): the product is computed in binary
\* floating point and then truncated, so for a fraction of ms thousandths it is
\* ms, or ms - 1 when the product falls just below ms (3.4 gives 399); a whole
\* number of seconds gives exactly 0
format_millisecs(t) ==
  IF t % 1000 = 0 THEN {0} ELSE {t % 1000, (t % 1000) - 1}

\* lines 492-497 with millisecs as line 495 computed it
format_srt_time(t, millisecs) ==
  ZeroPad(Digits(t \div 3600000), 2) \o <<":">>
    \o ZeroPad(Digits((t % 3600000) \div 60000), 2) \o <<":">>
    \o ZeroPad(Digits((t % 60000) \div 1000), 2) \o <<",">>
    \o ZeroPad(Digits(millisecs), 3)

TimeSeparators == {":", ".", ","}
RECURSIVE time_items(_, _)
\* pysrt's split of a timestamp at its separators; cur is the item being read
time_items(chars, cur) ==
  IF chars = <<>> THEN <<cur>>
  ELSE IF chars[1] \in TimeSeparators THEN <<cur>> \o time_items(Tail(chars), <<>>)
  ELSE time_items(Tail(chars), Append(cur, chars[1]))

RECURSIVE parse_int(_)
\* int(digits)
parse_int(digits) ==
  IF digits = <<>> THEN 0
  ELSE parse_int(SubSeq(digits, 1, Len(digits) - 1)) * 10
         + (CHOOSE d \in 0..9 : ToString(d) = digits[Len(digits)])

\* the SubRipTime pysrt builds from a timestamp (sub.start, sub.end at lines
\* 248-256): the four items, carried over into hours, minutes, seconds, ms
sub_rip_time(chars) ==
  LET items == time_items(chars, <<>>)
      ordinal == ((parse_int(items[1]) * 60 + parse_int(items[2])) * 60
                    + parse_int(items[3])) * 1000 + parse_int(items[4])
  IN SrtTime(ordinal \div 3600000, (ordinal \div 60000) % 60, (ordinal \div 1000) % 60,
             ordinal % 1000)

TimeInit ==
  \E seconds \in TimeInputs :
    /\ Direct(NoLocals @@ [pc |-> "l490", seconds |-> seconds, start_time |-> <<>>,
                           start_seconds |-> NoTime])
    /\ hist = [id \in TaskIds |-> NoHistory]

\* lines 490-497
call_format_srt_time(id) ==
  /\ At(id, "l490")
  /\ \E millisecs \in format_millisecs(proc[id].seconds) :
       Goto(id, "l245",
         [proc[id] EXCEPT !.start_time = format_srt_time(proc[id].seconds, millisecs)])
  /\ UNCHANGED <<TASKS, WHISPER_AVAILABLE, hist, request>>

\* lines 245-251 on a script entry that starts at the timestamp
read_start_seconds(id) ==
  /\ At(id, "l245")
  /\ Goto(id, "l251",
       [proc[id] EXCEPT !.start_seconds = srt_seconds(sub_rip_time(proc[id].start_time))])
  /\ UNCHANGED <<TASKS, WHISPER_AVAILABLE, hist, request>>

TimeNext == \E id \in TaskIds : call_format_srt_time(id) \/ read_start_seconds(id)

TimeSpec == TimeInit /\ [][TimeNext]_vars

(***************************************************************************)
(* generate_subtitles_from_text (lines 697-717) called on its own, on the  *)
(* words text.split() gives.                                               *)
(***************************************************************************)
\* longest text, in words, drawn from a two-word vocabulary
MaxText == 7

Alphabet == <<"a", "b", "c", "d", "e", "f", "g", "h", "i", "j", "k", "l", "m">>
TextInputs ==
  {SubSeq(Alphabet, 1, n) : n \in 0..Len(Alphabet)} \cup ListsUpTo({"x", "yy"}, MaxText)

TextInit ==
  \E words \in TextInputs :
    /\ Direct(NoLocals @@ [pc |-> "l697", words |-> words])
    /\ hist = [id \in TaskIds |-> NoHistory]

call_generate_subtitles_from_text(id) ==
  /\ At(id, "l697")
  /\ Goto(id, "l717",
       [proc[id] EXCEPT !.line_level_subtitles =
          List(generate_subtitles_from_text(proc[id].words))])
  /\ UNCHANGED <<TASKS, WHISPER_AVAILABLE, hist, request>>

TextNext == \E id \in TaskIds : call_generate_subtitles_from_text(id)

TextSpec == TextInit /\ [][TextNext]_vars

(***************************************************************************)
(* extract_video_url (lines 537-564) called on its own.                    *)
(***************************************************************************)
\* the fields a descriptor may carry, each absent or with one of its values
UrlFields == {<<>>} \cup {<< <<"url", v>> >> : v \in {PyNone, Str(""), Str(UrlA)}}
OutputValues ==
  {Dict(<<>>), Dict(<< <<"url", Str(UrlB)>> >>), Dict(<< <<"url", PyNone>> >>),
   Dict(<< <<"url", PyNone>>, <<"works", Get(D_worksRes, "output").items[1][2]>> >>)}
    \cup {Get(d, "output") : d \in {D_worksEmpty, D_worksBad, D_worksBoth, D_worksRes}}
OutputFields == {<<>>} \cup {<< <<"output", v>> >> : v \in OutputValues}
FileFields == {<<>>} \cup {<< <<"file", v>> >> : v \in {Str("clip"), Str(UrlD)}}
DescriptorInputs ==
  {Dict(u \o o \o f) : u \in UrlFields, o \in OutputFields, f \in FileFields}

UrlInit ==
  \E video_info \in DescriptorInputs :
    /\ Direct(NoLocals @@ [pc |-> "l537", video_info |-> video_info,
                           video_url |-> FallThrough])
    /\ hist = [id \in TaskIds |-> NoHistory]

call_extract_video_url(id) ==
  /\ At(id, "l537")
  /\ Goto(id, "l564", [proc[id] EXCEPT !.video_url = extract_video_url(proc[id].video_info)])
  /\ UNCHANGED <<TASKS, WHISPER_AVAILABLE, hist, request>>

UrlNext == \E id \in TaskIds : call_extract_video_url(id)

UrlSpec == UrlInit /\ [][UrlNext]_vars

(***************************************************************************)
(* Two tasks accepted one after the other, their workers running side by   *)
(* side.                                                                   *)
(***************************************************************************)
PairIds == {"t1", "t2"}

\* lines 171, 470, 503
audio_path(task_id) == TEMP_DIR \o "/audio_" \o task_id \o ".wav"
simple_srt(task_id) == TEMP_DIR \o "/simple_subtitles_" \o task_id \o ".srt"
webhook_srt(task_id) == TEMP_DIR \o "/webhook_subtitles_" \o task_id \o ".srt"

\* the paths the worker of a task has opened for writing so far: the parts it
\* downloaded (line 522), the combined clip (lines 601, 638), the audio track
\* (line 175), the saved script (line 504), the .ass and .srt files (lines
\* 362, 481) and the final videos (lines 272, 413)
FilesWritten(id) ==
  LET render == SeqToSet(hist[id].render)
      stages == SeqToSet(hist[id].stages)
  IN SeqToSet(hist[id].fetched)
     \cup (IF "assembly" \in stages /\ hist[id].handed # List(<<>>)
           THEN {combined_path(id)} ELSE {})
     \cup (IF "tier1" \in stages THEN {audio_path(id)} ELSE {})
     \cup (IF "tier2" \in stages THEN {webhook_srt(id)} ELSE {})
     \cup (IF render # {} THEN {ass_file(id)} ELSE {})
     \cup (IF render \cap {"burn_ass_ok", "burn_ass_failed", "copy_ok", "copy_failed"} # {}
           THEN {scrolling_output(id)} ELSE {})
     \cup (IF render \cap {"srt_built", "srt_failed"} # {} THEN {simple_srt(id)} ELSE {})
     \cup (IF render \cap {"burn_srt_ok", "burn_srt_failed", "fallback_copy_ok",
                           "fallback_copy_failed"} # {}
           THEN {fallback_output(id)} ELSE {})

\* the requests of the two tasks: the first brings two clips and a script, the
\* second one clip and a script, or a descriptor without a url followed by
\* one that cannot be resolved
PairRequests ==
  [t1 : {[videos |-> <<D_url, D_url>>, srt |-> Str(ScriptA)]},
   t2 : {[videos |-> <<D_url>>, srt |-> Str(ScriptA)],
         [videos |-> <<D_title, D_outNull>>, srt |-> PyNone]}]

\* the state after handle_webhook has accepted both requests (lines 762-775)
PairInit ==
  \E r \in PairRequests :
    /\ TASKS = [id \in PairIds |->
         [status |-> "initiated", progress |-> 0, video_data |-> r[id].videos,
          video_count |-> Len(r[id].videos),
          has_custom_subtitles |-> Truthy(r[id].srt),
          output_file |-> Absent, error |-> Absent]]
    /\ proc = [id \in PairIds |->
                 NoLocals @@ [pc |-> "l83", subtitles_content |-> r[id].srt]]
    /\ hist = [id \in PairIds |-> NoHistory]
    /\ WHISPER_AVAILABLE = TRUE
    /\ request = NoRequest

PairNext == \E id \in PairIds : Worker(id)

PairSpec == PairInit /\ [][PairNext]_vars

(***************************************************************************)
(* Properties.                                                             *)
(***************************************************************************)
Terminal == {"completed", "error"}
Last(q) == q[Len(q)]
IsPrefix(p, q) == Len(p) <= Len(q) /\ SubSeq(q, 1, Len(p)) = p
Checkpoints == <<0, 20, 70, 100>>

StatusSteps ==
  {<<"initiated", "processing">>, <<"processing", "completed">>, <<"processing", "error">>}

\* C1: a task's status only moves initiated -> processing -> completed or
\* initiated -> processing -> error: an entry starts as initiated, every change
\* of its status is one of these three steps, and a completed or error status
\* never changes again.
C1_StatusPath ==
  [][/\ DOMAIN TASKS \subseteq DOMAIN TASKS'
     /\ \A id \in DOMAIN TASKS' \ DOMAIN TASKS : TASKS'[id].status = "initiated"
     /\ \A id \in DOMAIN TASKS :
          \/ TASKS'[id].status = TASKS[id].status
          \/ <<TASKS[id].status, TASKS'[id].status>> \in StatusSteps]_vars

C1_Witness ==
  \E id \in DOMAIN TASKS : TASKS[id].status = "error" /\ TASKS[id].progress = 70

\* C2: the values process_videos writes to a task's progress field are, in
\* order, 0, 20, 70, 100: at every moment the values written so far are a prefix
\* of that sequence, the field holds the last one, and a completed task has
\* seen all four.
C2_ProgressCheckpoints ==
  \A id \in DOMAIN TASKS :
    /\ IsPrefix(hist[id].progress, Checkpoints)
    /\ TASKS[id].progress = IF hist[id].progress = <<>> THEN 0 ELSE Last(hist[id].progress)
    /\ TASKS[id].status = "completed" => hist[id].progress = Checkpoints

C2_Witness ==
  \E id \in DOMAIN TASKS : TASKS[id].status = "completed" /\ TASKS[id].progress = 100

\* C3: once an entry's status is completed or error, no step writes its status,
\* progress, output_file or error again.
C3_TerminalEntryFrozen ==
  [][\A id \in DOMAIN TASKS :
       TASKS[id].status \in Terminal =>
         /\ TASKS'[id].status = TASKS[id].status
         /\ TASKS'[id].progress = TASKS[id].progress
         /\ TASKS'[id].output_file = TASKS[id].output_file
         /\ TASKS'[id].error = TASKS[id].error]_vars

Answering(kind) == request.pc = "respond" /\ request.kind = kind

\* C4: whenever an entry's status is completed its output_file is set, and a
\* download request streams the file when it saw the status completed, answers
\* not-ready when it saw another status, and not-found for an unknown id.
C4_DownloadStreamsOnceCompleted ==
  /\ \A id \in DOMAIN TASKS :
       TASKS[id].status = "completed" => TASKS[id].output_file # Absent
  /\ Answering("download") =>
       /\ ~request.found => request.code = 404 /\ request.error = MsgNotFound
       /\ request.status = "completed" => request.code = 200 /\ request.file # Absent
       /\ (request.found /\ request.status # "completed") =>
            request.code = 400 /\ request.error = MsgNotReady

\* C5: the response of a status query carries a download url only with the
\* status completed, an error message only with the status error, and an
\* unknown id is answered not-found.
C5_StatusResponseConsistent ==
  Answering("status") =>
    IF ~request.found
    THEN request.code = 404 /\ request.error = MsgNotFound
    ELSE /\ request.download_url # Absent => request.status = "completed"
         /\ request.error # Absent => request.status = "error"

\* messages of the exceptions raised while descriptors are resolved and fetched
AcquisitionMessages == {MsgNoVideo, TypeErrorNotIterable, TypeErrorIndices}

NoneRaises(video_data) ==
  \A j \in 1..Len(video_data) : extract_video_url(video_data[j]).k = "return"

C7_FetchedClipsReachAssembly ==
  \A id \in DOMAIN TASKS :
    hist[id].fetched # <<>> /\ proc[id].pc # "l515" =>
      /\ hist[id].attempted = [j \in 1..Len(TASKS[id].video_data) |-> j]
      /\ hist[id].handed = List(hist[id].fetched)

\* C8: resolving a descriptor never raises: no task reaches the exception
\* handler with an exception of extract_video_url.
C8_UnresolvableIsSkipped ==
  \A id \in DOMAIN TASKS :
    /\ proc[id].exc \notin {TypeErrorNotIterable, TypeErrorIndices}
    /\ TASKS[id].error \notin {TypeErrorNotIterable, TypeErrorIndices}

SrtSteps == {"srt_built", "srt_failed"}
PlainCopies == {"copy_ok", "copy_failed", "fallback_copy_ok", "fallback_copy_failed"}

\* C9: with cues present, a failed .ass construction or a failed primary
\* burn-in is followed at once by building the plain .srt file, and no
\* subtitle-free copy is made before the .srt step has been tried.
C9_FailureTriggersSrtFallback ==
  \A id \in DOMAIN TASKS :
    hist[id].cues =>
      \A k \in 1..Len(hist[id].render) :
        /\ (hist[id].render[k] \in {"ass_failed", "burn_ass_failed"}
              /\ k < Len(hist[id].render)) => hist[id].render[k + 1] \in SrtSteps
        /\ (hist[id].render[k] \in PlainCopies) =>
             \E m \in 1..(k - 1) : hist[id].render[m] \in SrtSteps

\* C10: a failed burn-in of the plain .srt file is followed by a copy without
\* subtitles, and rendering fails the task only after such a copy has failed.
C10_OnlyExhaustionIsFatal ==
  \A id \in DOMAIN TASKS :
    /\ \A k \in 1..Len(hist[id].render) :
         (hist[id].render[k] = "burn_srt_failed" /\ k < Len(hist[id].render)) =>
           hist[id].render[k + 1] \in {"fallback_copy_ok", "fallback_copy_failed"}
    /\ (proc[id].exc = MsgCritical \/ TASKS[id].error = MsgCritical) =>
         Last(hist[id].render) = "fallback_copy_failed"

(***************************************************************************)
(* Properties of the .ass file create_ass_subtitles writes (AssSpec).       *)
(***************************************************************************)
Returned(id, pc) == id \in DOMAIN proc /\ proc[id].pc = pc

InWindow(line, w) == line.start <= w.start /\ w.start <= line.end
TokenOf(line, w) == lower(strip(w.word)) \in {lower(x) : x \in SeqToSet(split(line.text))}

\* the file holds an entry of the style over [start, end]
HasEntry(file, style, start, end) ==
  \E e \in SeqToSet(file.e) :
    /\ e.style = style
    /\ e.start = seconds_to_ass_time(start) /\ e.end = seconds_to_ass_time(end)

\* C11: when create_ass_subtitles is given word timings and cues and the file
\* system lets it write, the file is written and holds, for every cue, its
\* Default entry and, for every word timing whose start lies in the cue's
\* window and whose text is a token of the cue (case-insensitively), a
\* Highlight entry over the word's own [start, end].
C11_HighlightEntriesWritten ==
  \A id \in DOMAIN proc :
    (/\ Returned(id, "l365") /\ proc[id].exc # OSErrorWrite
     /\ Truthy(proc[id].word_level_info) /\ Truthy(proc[id].line_level_subtitles)) =>
      /\ hist[id].file # PyNone
      /\ \A line \in SeqToSet(proc[id].line_level_subtitles.e) :
           /\ HasEntry(hist[id].file, "Default", line.start, line.end)
           /\ \A w \in SeqToSet(proc[id].word_level_info.e) :
                (InWindow(line, w) /\ TokenOf(line, w)) =>
                  HasEntry(hist[id].file, "Highlight", w.start, w.end)

\* C12: every Highlight entry of a written file belongs to a word timing whose
\* start lies in the window of one of the cues and whose text is a token of
\* that cue (case-insensitively): a word failing either test adds no entry.
C12_HighlightNeedsWindowAndToken ==
  \A id \in DOMAIN proc :
    (Returned(id, "l365") /\ hist[id].file # PyNone) =>
      \A e \in SeqToSet(hist[id].file.e) :
        e.style = "Highlight" =>
          /\ Truthy(proc[id].word_level_info) /\ Truthy(proc[id].line_level_subtitles)
          /\ \E line \in SeqToSet(proc[id].line_level_subtitles.e),
                w \in SeqToSet(proc[id].word_level_info.e) :
               /\ InWindow(line, w) /\ TokenOf(line, w)
               /\ e.start = seconds_to_ass_time(w.start)
               /\ e.end = seconds_to_ass_time(w.end)

\* a file was written for cues and words of which one fails the token test
\* only and one fails the window test only
C12_Witness ==
  \E id \in DOMAIN proc :
    /\ Returned(id, "l365") /\ hist[id].file # PyNone
    /\ Truthy(proc[id].word_level_info) /\ Truthy(proc[id].line_level_subtitles)
    /\ Len(hist[id].file.e) = Len(proc[id].line_level_subtitles.e)
    /\ \E line \in SeqToSet(proc[id].line_level_subtitles.e),
          w \in SeqToSet(proc[id].word_level_info.e) : InWindow(line, w) /\ ~TokenOf(line, w)
    /\ \E line \in SeqToSet(proc[id].line_level_subtitles.e),
          w \in SeqToSet(proc[id].word_level_info.e) : ~InWindow(line, w) /\ TokenOf(line, w)

(***************************************************************************)
(* Properties of caption resolution and of the fatal failures (Spec).      *)
(***************************************************************************)
CaptionPcs == {"l97", "l103", "l111", "l117", "l124"}
Ran(id, stage) == stage \in SeqToSet(hist[id].stages)

\* C13: no failure inside a caption tier fails the task.  While the worker is
\* in caption resolution the status is processing, the progress is 20 and no
\* exception is pending; no task is in error, or on its way to the exception
\* handler, with the progress 20; after Tier 1 failed with a script supplied
\* Tier 2 has run, after a tier left no cues Tier 3 has run, and every task
\* that left caption resolution has written the 70% checkpoint.
C13_TierFailureNotFatal ==
  \A id \in DOMAIN TASKS :
    /\ proc[id].pc \in CaptionPcs =>
         /\ TASKS[id].status = "processing" /\ TASKS[id].progress = 20
         /\ proc[id].exc = ""
    /\ (TASKS[id].status = "error" \/ proc[id].pc \in {"l150", "l151"}) =>
         TASKS[id].progress # 20
    /\ (/\ proc[id].pc \in {"l117", "l124"} /\ Ran(id, "tier1")
        /\ proc[id].word_level_info = PyNone /\ Truthy(proc[id].subtitles_content)) =>
         Ran(id, "tier2")
    /\ (proc[id].pc = "l124" /\ Ran(id, "tier2")
          /\ pysrt_open(proc[id].subtitles_content.v).k = "raise") => Ran(id, "tier3")
    /\ (proc[id].pc = "l124" /\ ~Truthy(proc[id].line_level_subtitles)) => Ran(id, "tier3")
    /\ (Ran(id, "assembly") /\ Len(hist[id].progress) = 2) =>
         proc[id].pc \in CaptionPcs \cup {"l94"}

\* Tier 1 and Tier 2 have both failed, Tier 3 has made the cues and the worker
\* has entered rendering at 70%
C13_Witness ==
  \E id \in DOMAIN TASKS :
    /\ proc[id].pc = "l276" /\ TASKS[id].progress = 70 /\ TASKS[id].status = "processing"
    /\ hist[id].stages = <<"assembly", "tier1", "tier2", "tier3">>
    /\ proc[id].word_level_info = PyNone
    /\ proc[id].subtitles_content = Str(ScriptBad)
    /\ Truthy(proc[id].line_level_subtitles)

\* C14: whenever Tier 1 has left no cues and the request carried a script,
\* Tier 2 has run before Tier 3's test: a worker at line 117 with a script
\* and without a Tier 2 run holds cues of Tier 1, and after a Tier 2 run the
\* cues it holds are what parsing the script gave.
C14_ScriptUsedWhenTier1Empty ==
  \A id \in DOMAIN TASKS :
    (proc[id].pc = "l117" /\ Truthy(proc[id].subtitles_content)) =>
      IF Ran(id, "tier2")
      THEN proc[id].line_level_subtitles \in
             {parse_srt_to_line_level(saved, proc[id].subtitles_content.v) : saved \in BOOLEAN}
      ELSE Truthy(proc[id].line_level_subtitles)

StageNo(stage) ==
  CASE stage = "assembly" -> 0 [] stage = "tier1" -> 1 [] stage = "tier2" -> 2
    [] stage = "tier3" -> 3
Ascending(stages) ==
  \A a, b \in 1..Len(stages) : a < b => StageNo(stages[a]) < StageNo(stages[b])
RenderPcs == {"l276", "l280", "l412"}

\* C15: the tiers run in the order 1, 2, 3 and the first one that yields cues
\* wins.  Tier 1 runs only with an audio track and the speech engine; a worker
\* that holds cues at line 111 or line 117 runs no further tier and keeps its
\* cues; Tier 3 runs exactly when the worker holds no cues at line 117; and
\* the cues held after line 117 are the ones rendering works with.
C15_FirstTierWins ==
  [][\A id \in DOMAIN proc :
       LET p == proc[id]
           q == proc'[id]
           runs(stage) == hist'[id].stages = Append(hist[id].stages, stage)
           idle == hist'[id].stages = hist[id].stages
                     /\ q.line_level_subtitles = p.line_level_subtitles
       IN q.pc # p.pc =>
            /\ Ascending(hist'[id].stages)
            /\ p.pc = "l103" =>
                 IF p.has_audio /\ WHISPER_AVAILABLE THEN runs("tier1") ELSE idle
            /\ p.pc = "l111" =>
                 /\ runs("tier2") \/ idle
                 /\ Truthy(p.line_level_subtitles) => idle
            /\ p.pc = "l117" =>
                 IF Truthy(p.line_level_subtitles) THEN idle ELSE runs("tier3")
            /\ p.pc = "l124" => idle /\ q.pc = "l276"
            /\ (p.pc \in RenderPcs /\ q.pc \in RenderPcs) => idle]_vars

\* Tier 1 ran and found no words, Tier 2 made the cues, Tier 3 did not run
C15_Witness ==
  \E id \in DOMAIN TASKS :
    /\ proc[id].pc = "l276"
    /\ hist[id].stages = <<"assembly", "tier1", "tier2">>
    /\ proc[id].word_level_info = List(<<>>)
    /\ proc[id].line_level_subtitles = parse_srt_to_line_level(TRUE, ScriptA)
    /\ Len(proc[id].line_level_subtitles.e) = 2

\* C16: an error of the transcoding engine while the clips are combined fails
\* the task: from the moment the exception is raised the progress stays 0, no
\* caption tier and no rendering step runs, the task is never completed, and
\* the worker ends with the status error and the engine's message recorded.
C16_CombineErrorIsFatal ==
  \A id \in DOMAIN TASKS :
    (proc[id].exc = MsgFfmpeg \/ TASKS[id].error = MsgFfmpeg) =>
      /\ TASKS[id].progress = 0 /\ hist[id].progress = <<0>>
      /\ hist[id].stages = <<"assembly">> /\ hist[id].render = <<>>
      /\ TASKS[id].status # "completed" /\ TASKS[id].output_file = Absent
      /\ proc[id].pc \in {"l150", "l151", "done"}
      /\ proc[id].pc = "done" =>
           TASKS[id].status = "error" /\ TASKS[id].error = MsgFfmpeg

\* the engine failed while two fetched clips were being concatenated
C16_Witness ==
  \E id \in DOMAIN TASKS :
    /\ proc[id].pc = "done" /\ TASKS[id].status = "error"
    /\ TASKS[id].error = MsgFfmpeg /\ TASKS[id].progress = 0
    /\ hist[id].handed # PyNone /\ Len(hist[id].handed.e) = MaxClips

\* C17: in every state in which a task's status is error, an error message is
\* recorded in its entry and its progress is the last checkpoint written
\* before the failure, one of 0, 20 and 70 and never 100.
C17_ErrorFreezesProgress ==
  \A id \in DOMAIN TASKS :
    TASKS[id].status = "error" =>
      /\ TASKS[id].error # Absent
      /\ hist[id].progress # <<>> /\ TASKS[id].progress = Last(hist[id].progress)
      /\ TASKS[id].progress \in {0, 20, 70}

(***************************************************************************)
(* Properties of the packer (PackSpec).                                    *)
(***************************************************************************)
\* C18: every cue convert_to_line_level returns has a text of at most
\* max_chars characters, unless the text is a single word of the input.
C18_CueWithinBudget ==
  \A id \in DOMAIN proc :
    Returned(id, "l239") =>
      \A cue \in SeqToSet(proc[id].line_level_subtitles.e) :
        \/ Len(cue.text) <= proc[id].max_chars
        \/ cue.text \in {strip(w.word) : w \in SeqToSet(proc[id].word_level_info.e)}

\* a line filled to the last character of the budget, then a word longer than
\* the budget on a line of its own
C18_Witness ==
  \E id \in DOMAIN proc :
    /\ Returned(id, "l239") /\ proc[id].max_chars = 4
    /\ Len(proc[id].line_level_subtitles.e) = 2
    /\ proc[id].line_level_subtitles.e[1].text = "a bb"
    /\ proc[id].line_level_subtitles.e[2].text = "cccccccc"

RECURSIVE CuesOfRuns(_, _, _)
\* the cues of the words from s on, cut into runs after the indices in breaks:
\* each run with a non-blank text is a cue from its first word's start to its
\* last word's end
CuesOfRuns(ws, breaks, s) ==
  IF s > Len(ws) THEN <<>>
  ELSE LET ends == {b \in breaks : b >= s} \cup {Len(ws)}
           hi == CHOOSE b \in ends : \A c \in ends : b <= c
           text == StripLine([j \in 1..(hi - s + 1) |-> strip(ws[s + j - 1].word)])
       IN (IF text # "" THEN <<Cue(text, ws[s].start, ws[hi].end)>> ELSE <<>>)
          \o CuesOfRuns(ws, breaks, hi + 1)

\* C19: the cues convert_to_line_level returns are the non-blank runs of a
\* cut of the word list into consecutive runs, each cue starting at the start
\* of the first word of its run and ending at the end of the last one.
C19_CueSpansItsWords ==
  \A id \in DOMAIN proc :
    Returned(id, "l239") =>
      LET ws == proc[id].word_level_info.e
      IN \E breaks \in SUBSET (1..(Len(ws) - 1)) :
           proc[id].line_level_subtitles.e = CuesOfRuns(ws, breaks, 1)

\* a flush, a word longer than the budget alone on its line, and a line after it
C19_Witness ==
  \E id \in DOMAIN proc :
    /\ Returned(id, "l239") /\ proc[id].max_chars = 4
    /\ proc[id].line_level_subtitles.e =
         << Cue("a bb", 0, 1400), Cue("cccccccc", 2000, 2400), Cue("a", 3000, 3400) >>

RECURSIVE InOrder(_)
\* the elements of a set of numbers, smallest first
InOrder(S) ==
  IF S = {} THEN <<>>
  ELSE LET lo == CHOOSE b \in S : \A c \in S : b <= c
       IN <<lo>> \o InOrder(S \ {lo})

\* C28: for words none of which is blank, convert_to_line_level keeps every
\* word, once and in order: its cues are the consecutive runs of a cut of the
\* word list, one cue per run, the text of a cue being the words of its run
\* joined by single spaces; and every cut is forced: the text of the cue
\* before it, one space and the first word after it exceed max_chars.
C28_PackerKeepsWords ==
  \A id \in DOMAIN proc :
    (/\ Returned(id, "l239")
     /\ \A w \in SeqToSet(proc[id].word_level_info.e) : strip(w.word) # "") =>
      LET ws == proc[id].word_level_info.e
          cues == proc[id].line_level_subtitles.e
      IN \E breaks \in SUBSET (1..(Len(ws) - 1)) :
           LET cuts == InOrder(breaks)
           IN /\ cues = CuesOfRuns(ws, breaks, 1)
              /\ Len(cues) = IF ws = <<>> THEN 0 ELSE Len(cuts) + 1
              /\ \A k \in 1..Len(cuts) :
                   Len(cues[k].text) + 1 + Len(strip(ws[cuts[k] + 1].word)) > proc[id].max_chars

\* four words packed two to a line: the third word would have made the first
\* line one character longer than the budget
C28_Witness ==
  \E id \in DOMAIN proc :
    /\ Returned(id, "l239") /\ proc[id].max_chars = 5
    /\ Len(proc[id].word_level_info.e) = 4
    /\ \A w \in SeqToSet(proc[id].word_level_info.e) : strip(w.word) # ""
    /\ Len(proc[id].line_level_subtitles.e) = 2
    /\ proc[id].line_level_subtitles.e[1].text = "bb a"
    /\ proc[id].line_level_subtitles.e[2].text = "a bb"

(***************************************************************************)
(* Properties of the timestamps (TimeSpec).                                *)
(***************************************************************************)
\* C20: a time on the millisecond grid, formatted by format_srt_time and read
\* back as h*3600 + m*60 + s + ms/1000, comes back within 1 millisecond.
C20_SrtTimeRoundTrip ==
  \A id \in DOMAIN proc :
    Returned(id, "l251") =>
      /\ proc[id].start_seconds - proc[id].seconds <= 1
      /\ proc[id].seconds - proc[id].start_seconds <= 1

\* 1:59:03.400 was written as 01:59:03,399 and read back one millisecond early
C20_Witness ==
  \E id \in DOMAIN proc :
    /\ Returned(id, "l251")
    /\ proc[id].seconds = ((1 * 60 + 59) * 60 + 3) * 1000 + 400
    /\ proc[id].start_time =
         <<"0", "1", ":", "5", "9", ":", "0", "3", ",", "3", "9", "9">>
    /\ proc[id].start_seconds = proc[id].seconds - 1

(***************************************************************************)
(* Properties of the text fallback (TextSpec).                             *)
(***************************************************************************)
\* C21: for n words generate_subtitles_from_text returns ceil(n/6) cues; cue
\* i (from 0) holds the words 6i..6i+5, the last cue the remainder, joined by
\* single spaces, from second 3i to second 3i + 3; no word timing is made.
C21_SixWordGroups ==
  \A id \in DOMAIN proc :
    Returned(id, "l717") =>
      LET words == proc[id].words
          cues == proc[id].line_level_subtitles.e
      IN /\ Len(cues) = (Len(words) + 5) \div 6
         /\ \A i \in 0..(Len(cues) - 1) :
              LET last == IF 6 * i + 6 < Len(words) THEN 6 * i + 6 ELSE Len(words)
              IN cues[i + 1] = Cue(JoinWith(SubSeq(words, 6 * i + 1, last), " "),
                                   3000 * i, 3000 * i + 3000)
         /\ proc[id].word_level_info = PyNone

\* the words a..g give {"a b c d e f", 0, 3} and {"g", 3, 6}
C21_Witness ==
  \E id \in DOMAIN proc :
    /\ Returned(id, "l717")
    /\ proc[id].words = <<"a", "b", "c", "d", "e", "f", "g">>
    /\ proc[id].line_level_subtitles.e =
         << Cue("a b c d e f", 0, 3000), Cue("g", 3000, 6000) >>

(***************************************************************************)
(* Properties of the script tier (Spec).                                   *)
(***************************************************************************)
\* C22: a task whose combined clip has no audio track and whose request
\* carried the well-formed script enters rendering after Tier 2 has run and
\* without word timing; unless the script file could not be saved (and Tier 3
\* ran in its place), the cues are one per entry of the script, in order,
\* with start and end h*3600 + m*60 + s + ms/1000 of the entry's timestamps
\* and the entry's lines joined by spaces.
C22_ScriptCues ==
  \A id \in DOMAIN TASKS :
    (/\ proc[id].pc = "l276" /\ ~proc[id].has_audio
     /\ proc[id].subtitles_content = Str(ScriptA)) =>
      /\ Ran(id, "tier2") /\ ~Ran(id, "tier1")
      /\ proc[id].word_level_info = PyNone
      /\ ~Ran(id, "tier3") =>
           proc[id].line_level_subtitles =
             List(<< Cue("Hello world", 0, 3000),
                     Cue("Second line", ((1 * 60 + 2) * 60 + 3) * 1000 + 450,
                         ((1 * 60 + 2) * 60 + 6) * 1000 + 500) >>)

\* the script's two cues enter rendering after Tier 2 alone has run
C22_Witness ==
  \E id \in DOMAIN TASKS :
    /\ proc[id].pc = "l276" /\ ~proc[id].has_audio
    /\ proc[id].subtitles_content = Str(ScriptA)
    /\ hist[id].stages = <<"assembly", "tier2">>
    /\ Len(proc[id].line_level_subtitles.e) = 2
    /\ proc[id].line_level_subtitles.e[2].text = "Second line"
    /\ proc[id].line_level_subtitles.e[2].start = 3723450

(***************************************************************************)
(* Properties of the url resolution (UrlSpec).                             *)
(***************************************************************************)
\* the value of a field of a dict, None when the dict lacks it
Field(d, k) == IF d.t = "dict" /\ HasKey(d, k) THEN Get(d, k) ELSE PyNone
\* a url that can be used: a non-empty string
Usable(v) == v.t = "str" /\ v.v # ""
\* the first usable value of the candidates, None if there is none
RECURSIVE FirstUsable(_)
FirstUsable(candidates) ==
  IF candidates = <<>> THEN PyNone
  ELSE IF Usable(candidates[1]) THEN candidates[1]
  ELSE FirstUsable(Tail(candidates))

\* what each rule of the precedence yields for a descriptor
TopLevelUrl(d) == Field(d, "url")
OutputUrl(d) == Field(Field(d, "output"), "url")
WorksResource(d) ==
  LET works == Field(Field(d, "output"), "works")
      video == IF works.t = "list" /\ works.e # <<>> THEN Field(works.e[1], "video")
               ELSE PyNone
  IN FirstUsable(<<Field(video, "resource_without_watermark"), Field(video, "resource")>>)
FirstMp4Field(d) ==
  FirstUsable([j \in 1..Len(d.items) |->
                 IF d.items[j][2].t = "str" /\ d.items[j][2].v \in HttpMp4
                 THEN d.items[j][2] ELSE PyNone])

\* C23: the url resolved for a descriptor is the first usable one of: its
\* top-level url, its output's url, the resource of its output's first work
\* (the watermark-free one if present), its first string field that is an http
\* .mp4 url; a rule that yields nothing usable gives way to the next, and a
\* descriptor for which no rule yields a url resolves to none.
C23_UrlPrecedence ==
  \A id \in DOMAIN proc :
    Returned(id, "l564") =>
      /\ proc[id].video_url.k = "return"
      /\ FirstUsable(<<proc[id].video_url.v>>) =
           FirstUsable(<<TopLevelUrl(proc[id].video_info), OutputUrl(proc[id].video_info),
                         WorksResource(proc[id].video_info),
                         FirstMp4Field(proc[id].video_info)>>)

(***************************************************************************)
(* Termination (FairSpec).                                                 *)
(***************************************************************************)
\* C24: every accepted task eventually has its worker finished with the
\* status completed or error.
C24_TaskTerminates ==
  \A id \in TaskIds :
    (id \in DOMAIN TASKS) ~>
      (id \in DOMAIN TASKS /\ proc[id].pc = "done" /\ TASKS[id].status \in Terminal)

\* the last fallback of rendering failed; the handler recorded it and the
\* worker finished
C24_Witness ==
  \E id \in DOMAIN TASKS :
    /\ proc[id].pc = "done" /\ TASKS[id].status = "error"
    /\ TASKS[id].error = MsgCritical /\ Last(hist[id].render) = "fallback_copy_failed"

\* no tier gave anything: Tier 1 and Tier 2 did not run (no audio track or no
\* engine, no script) and Tier 3 ran on descriptors without text
NoCaptions(id) ==
  /\ hist[id].stages = <<"assembly", "tier3">>
  /\ extract_text_from_videos(TASKS[id].video_data) = ""

RenderSuccess == {"burn_ass_ok", "copy_ok", "burn_srt_ok", "fallback_copy_ok"}

\* C26: when no tier gave anything the worker goes on to rendering without
\* cues: it writes the 70% checkpoint, calls the renderer, and ends completed
\* with an output file when a rendering call succeeded; it ends in error only
\* after the last rendering call failed, never for lack of cues.
C26_RendersWithoutCaptions ==
  \A id \in DOMAIN TASKS :
    NoCaptions(id) =>
      /\ proc[id].pc \in {"l124"} \cup RenderPcs \cup {"l140", "l143", "l144", "l150", "l151", "done"}
      /\ proc[id].pc # "l124" => (70 \in SeqToSet(hist[id].progress) /\ ~hist[id].cues)
      /\ proc[id].pc \notin {"l124", "l276"} => hist[id].render # <<>>
      /\ proc[id].pc \in {"l150", "l151"} => Last(hist[id].render) = "fallback_copy_failed"
      /\ proc[id].pc \in {"l140", "l143", "l144"} => Last(hist[id].render) \in RenderSuccess
      /\ proc[id].pc = "done" =>
           IF Last(hist[id].render) \in RenderSuccess
           THEN TASKS[id].status = "completed" /\ TASKS[id].output_file # Absent
           ELSE TASKS[id].status = "error" /\ Last(hist[id].render) = "fallback_copy_failed"

\* a task without captions of any tier ended completed after the primary
\* rendering call on an .ass file without events
C26_Witness ==
  \E id \in DOMAIN TASKS :
    /\ NoCaptions(id)
    /\ proc[id].pc = "done" /\ TASKS[id].status = "completed"
    /\ hist[id].render = <<"ass_built", "burn_ass_ok">>
    /\ TASKS[id].output_file = scrolling_output(id)

\* C27: an entry of the registry has an output file only with the status
\* completed and an error message only with the status error, and never both.
C27_OutcomeFieldsMatchStatus ==
  \A id \in DOMAIN TASKS :
    /\ TASKS[id].output_file # Absent => TASKS[id].status = "completed"
    /\ TASKS[id].error # Absent => TASKS[id].status = "error"
    /\ ~(TASKS[id].output_file # Absent /\ TASKS[id].error # Absent)

\* a finished task with the status completed, its output file and no error
C27_Witness ==
  \E id \in DOMAIN TASKS :
    /\ proc[id].pc = "done"
    /\ TASKS[id].status = "completed"
    /\ TASKS[id].output_file # Absent /\ TASKS[id].error = Absent

(***************************************************************************)
(* Properties of two tasks running side by side (PairSpec).                *)
(***************************************************************************)
FilesDisjoint ==
  \A a, b \in DOMAIN TASKS : a # b => FilesWritten(a) \cap FilesWritten(b) = {}

\* C25: the files written by two tasks with distinct identifiers are
\* disjoint, and an entry of the registry changes only in a step of the
\* worker of its own task.
C25_TasksKeepApart ==
  [][/\ FilesDisjoint'
     /\ \A id \in DOMAIN TASKS :
          TASKS'[id] # TASKS[id] =>
            /\ proc'[id] # proc[id]
            /\ \A other \in DOMAIN TASKS \ {id} :
                 proc'[other] = proc[other] /\ TASKS'[other] = TASKS[other]]_vars

\* both workers are rendering, each with its downloaded parts, its combined
\* clip and its subtitle file written
C25_Witness ==
  /\ DOMAIN TASKS = PairIds
  /\ \A id \in PairIds :
       /\ proc[id].pc = "l280"
       /\ {local_path(0, id), combined_path(id), audio_path(id), webhook_srt(id),
           ass_file(id)} \subseteq FilesWritten(id)

====
